---------------------------- MODULE Spec2Model ----------------------------
(***************************************************************************)
(* A model of the Q-learning Snake trainer: src/game.py (Snake, Fruit,     *)
(* Game) and src/ai.py (SnakeAI: get_state, get_action, apply_action,      *)
(* train, play).                                                           *)
(*                                                                         *)
(* Numbers.  Cells are pixel pairs <<x, y>> as in the source (multiples of *)
(* block_size, y growing downward).  Action-values are exact rationals     *)
(* <<n, d>> in lowest terms (d > 0): the real-number reading of the        *)
(* binary64 arithmetic of the source.  Probabilities (epsilon, the draws   *)
(* of random.random()) are decimal fixed-point numbers with EpsOne units   *)
(* to 1.0; a product is rounded to the nearest unit.                       *)
(***************************************************************************)
EXTENDS Integers, Sequences, FiniteSets, TLC

(***************************************************************************)
(* Bounds of the model.                                                    *)
(***************************************************************************)
\* train(num_games): the number of episodes of a training run.
NumGames == 2
\* The number of simulation ticks of a run that Spec explores.
MaxTicks == 6
\* The number of ticks of play() that Spec explores.
MaxPlayTicks == 3
\* The first ticks of an episode of SpecLive whose draws of randint are free
FreeTicks == 3
\* train(num_games) of the epsilon schedule SpecEps.
EpsGames == 2400
\* The number of repetitions of one update that SpecConv explores.
ConvSteps == 2

(***************************************************************************)
(* Program constants.                                                      *)
(***************************************************************************)
\* Game(width, height), in pixels.  The model plays on 6 x 6 cells, the
\* smallest grid whose spawn cell is aligned with the goal's cells and on
\* which the goal has more than one cell (the defaults are 800 x 600).
width == 120
height == 120
block_size == 20
StallLimit == 100
RewardCollision == -10
RewardFruit == 10
FruitPoints == 1

\* 1.0 in the fixed-point unit of probabilities.
EpsOne == 10^9
epsilon_start == EpsOne
epsilon_min == EpsOne \div 100
\* epsilon_decay = 0.998 = DecayNum / DecayDen
DecayNum == 998
DecayDen == 1000
\* learning_rate = 0.05 and discount_factor = 0.95 as rationals
learning_rate == <<1, 20>>
discount_factor == <<19, 20>>

(***************************************************************************)
(* Rationals in lowest terms.                                              *)
(***************************************************************************)
Abs(x) == IF x < 0 THEN -x ELSE x

RECURSIVE Gcd(_, _)
Gcd(a, b) == IF b = 0 THEN a ELSE Gcd(b, a % b)

Rat(n, d) ==
    LET g == Gcd(Abs(n), d)
    IN  IF n = 0 THEN <<0, 1>> ELSE <<n \div g, d \div g>>

Zero == <<0, 1>>
RInt(i) == <<i, 1>>
RAdd(p, q) == Rat(p[1] * q[2] + q[1] * p[2], p[2] * q[2])
RSub(p, q) == Rat(p[1] * q[2] - q[1] * p[2], p[2] * q[2])
RMul(p, q) == Rat(p[1] * q[1], p[2] * q[2])
RLess(p, q) == p[1] * q[2] < q[1] * p[2]
RMax(p, q) == IF RLess(p, q) THEN q ELSE p

(***************************************************************************)
(* game.py: Direction, Snake, Fruit.                                       *)
(***************************************************************************)
Directions == {"UP", "DOWN", "LEFT", "RIGHT"}

\* Direction.value
DirValue(d) ==
    CASE d = "UP" -> <<0, -1>>
      [] d = "DOWN" -> <<0, 1>>
      [] d = "LEFT" -> <<-1, 0>>
      [] d = "RIGHT" -> <<1, 0>>

\* Game.__init__ / Game.reset: spawn_pos
spawn_pos == <<width \div 2, height \div 2>>

\* body[1:] of a Python list: all segments but the head
BodyRest(s) == SubSeq(s, 2, Len(s))
\* body[:-1]: all segments but the last
Front(s) == SubSeq(s, 1, Len(s) - 1)
Segments(s) == {s[i] : i \in 1..Len(s)}

\* MoveBody dropping the tail on every tick, growth pending or not
MoveBody_AlwaysPops(b, d, pending) ==
    LET new_head == <<b[1][1] + DirValue(d)[1] * block_size,
                      b[1][2] + DirValue(d)[2] * block_size>>
    IN  <<new_head>> \o Front(b)

\* Snake.move: the body after one move in direction d
MoveBody(b, d, pending) ==
    LET new_head == <<b[1][1] + DirValue(d)[1] * block_size,
                      b[1][2] + DirValue(d)[2] * block_size>>
        grown == <<new_head>> \o b
    IN  IF ~pending THEN Front(grown) ELSE grown

\* Snake.check_collision
CheckCollision(b) ==
    LET head == b[1]
    IN  \/ head[1] < 0 \/ head[1] >= width
        \/ head[2] < 0 \/ head[2] >= height
        \/ head \in Segments(BodyRest(b))

\* range(start, stop, step) of Python, step > 0
PyRange(start, stop, step) ==
    {start + k * step : k \in {j \in 0..(stop - start) : start + j * step < stop}}

\* Fruit.respawn: the positions random.randrange can produce
FruitCells ==
    LET min_x == block_size * 2
        max_x == width - (block_size * 2)
        min_y == block_size * 2
        max_y == height - (block_size * 2)
    IN  PyRange(min_x, max_x, block_size) \X PyRange(min_y, max_y, block_size)

\* The top row of the goal's cells
StallFruitCells == {f \in FruitCells : f[2] = block_size * 2}

\* Game.update, line 145: the cells on which the re-sampling loop can stop
FreeFruitCells(b) == FruitCells \ Segments(b)

(***************************************************************************)
(* ai.py: the state encoder, the policy and the learner.                   *)
(***************************************************************************)
Actions == {0, 1, 2}
ZeroTriple == <<Zero, Zero, Zero>>

\* DangerStraight without the wall test
DangerStraight_BodyOnly(b, d) ==
    LET x == b[1][1]
        y == b[1][2]
        rest == Segments(BodyRest(b))
    IN  CASE d = "UP" -> <<x, y - block_size>> \in rest
          [] d = "DOWN" -> <<x, y + block_size>> \in rest
          [] d = "LEFT" -> <<x - block_size, y>> \in rest
          [] d = "RIGHT" -> <<x + block_size, y>> \in rest

\* SnakeAI.get_state, lines 44-90: the three danger flags of a snapshot
\* (body b, heading d), case by case as the source computes them: the wall
\* test of lines 44-59 or the body test of lines 62-90
DangerStraight(b, d) ==
    LET x == b[1][1]
        y == b[1][2]
        rest == Segments(BodyRest(b))
    IN  CASE d = "UP" ->
               y - block_size < 0 \/ <<x, y - block_size>> \in rest
          [] d = "DOWN" ->
               y + block_size >= height \/ <<x, y + block_size>> \in rest
          [] d = "LEFT" ->
               x - block_size < 0 \/ <<x - block_size, y>> \in rest
          [] d = "RIGHT" ->
               x + block_size >= width \/ <<x + block_size, y>> \in rest

DangerRight(b, d) ==
    LET x == b[1][1]
        y == b[1][2]
        rest == Segments(BodyRest(b))
    IN  CASE d = "UP" ->
               x + block_size >= width \/ <<x + block_size, y>> \in rest
          [] d = "DOWN" ->
               x - block_size < 0 \/ <<x - block_size, y>> \in rest
          [] d = "LEFT" ->
               y - block_size < 0 \/ <<x, y - block_size>> \in rest
          [] d = "RIGHT" ->
               y + block_size >= height \/ <<x, y + block_size>> \in rest

\* DangerLeft computed as DangerRight is
DangerLeft_AsRight(b, d) == DangerRight(b, d)

DangerLeft(b, d) ==
    LET x == b[1][1]
        y == b[1][2]
        rest == Segments(BodyRest(b))
    IN  CASE d = "UP" ->
               x - block_size < 0 \/ <<x - block_size, y>> \in rest
          [] d = "DOWN" ->
               x + block_size >= width \/ <<x + block_size, y>> \in rest
          [] d = "LEFT" ->
               y + block_size >= height \/ <<x, y + block_size>> \in rest
          [] d = "RIGHT" ->
               y - block_size < 0 \/ <<x, y - block_size>> \in rest

\* GetState with rel_y taken upward
GetState_YUp(b, d, f) ==
    LET rel_x == f[1] - b[1][1]
        rel_y == b[1][2] - f[2]
    IN  << DangerStraight(b, d), DangerLeft(b, d), DangerRight(b, d),
           rel_x > 0, rel_x < 0, rel_y > 0, rel_y < 0,
           d = "UP", d = "DOWN", d = "LEFT", d = "RIGHT" >>

\* GetState whose heading flags are those of the axis only
GetState_AxisFlags(b, d, f) ==
    LET rel_x == f[1] - b[1][1]
        rel_y == f[2] - b[1][2]
    IN  << DangerStraight(b, d), DangerLeft(b, d), DangerRight(b, d),
           rel_x > 0, rel_x < 0, rel_y > 0, rel_y < 0,
           d \in {"UP", "DOWN"}, d \in {"UP", "DOWN"},
           d \in {"LEFT", "RIGHT"}, d \in {"LEFT", "RIGHT"} >>

\* SnakeAI.get_state: the 11 booleans of a snapshot (body b, heading d,
\* goal f)
GetState(b, d, f) ==
    LET rel_x == f[1] - b[1][1]
        rel_y == f[2] - b[1][2]
    IN  << DangerStraight(b, d), DangerLeft(b, d), DangerRight(b, d),
           rel_x > 0, rel_x < 0, rel_y > 0, rel_y < 0,
           d = "UP", d = "DOWN", d = "LEFT", d = "RIGHT" >>

\* ApplyAction with the two turns exchanged
ApplyAction_Swapped(d, a) ==
    IF a = 2 THEN
        CASE d = "UP" -> "LEFT"
          [] d = "LEFT" -> "DOWN"
          [] d = "DOWN" -> "RIGHT"
          [] OTHER -> "UP"
    ELSE IF a = 1 THEN
        CASE d = "UP" -> "RIGHT"
          [] d = "RIGHT" -> "DOWN"
          [] d = "DOWN" -> "LEFT"
          [] OTHER -> "UP"
    ELSE d

\* SnakeAI.apply_action: the heading after the action
ApplyAction(d, a) ==
    IF a = 1 THEN
        CASE d = "UP" -> "LEFT"
          [] d = "LEFT" -> "DOWN"
          [] d = "DOWN" -> "RIGHT"
          [] OTHER -> "UP"
    ELSE IF a = 2 THEN
        CASE d = "UP" -> "RIGHT"
          [] d = "RIGHT" -> "DOWN"
          [] d = "DOWN" -> "LEFT"
          [] OTHER -> "UP"
    ELSE d

\* EnsureKey without the membership test
EnsureKey_Overwrite(t, s) == (s :> ZeroTriple) @@ t

\* q_table[state] = [0, 0, 0] when state is not a key
EnsureKey(t, s) == IF s \in DOMAIN t THEN t ELSE (s :> ZeroTriple) @@ t

\* np.max of a triple
MaxOf(v) == RMax(RMax(v[1], v[2]), v[3])

\* ArgMax returning the last index of the maximum
ArgMax_Last(v) ==
    IF ~RLess(v[3], v[1]) /\ ~RLess(v[3], v[2]) THEN 2
    ELSE IF ~RLess(v[2], v[1]) THEN 1
    ELSE 0

\* np.argmax of a triple: the first index (from 0) of its maximum
ArgMax(v) ==
    IF ~RLess(v[1], v[2]) /\ ~RLess(v[1], v[3]) THEN 0
    ELSE IF ~RLess(v[2], v[3]) THEN 1
    ELSE 2

\* NewQ with the sign of the step reversed
NewQ_Away(old_q, r, next_max) ==
    RSub(old_q,
         RMul(learning_rate,
              RSub(RAdd(RInt(r), RMul(discount_factor, next_max)), old_q)))

\* NewQ with the discount factor left out
NewQ_Undiscounted(old_q, r, next_max) ==
    RAdd(old_q, RMul(learning_rate, RSub(RAdd(RInt(r), next_max), old_q)))

\* The Bellman formula of train
NewQ(old_q, r, next_max) ==
    RAdd(old_q,
         RMul(learning_rate,
              RSub(RAdd(RInt(r), RMul(discount_factor, next_max)), old_q)))

\* x * epsilon_decay, rounded to the nearest unit
TimesDecay(x) ==
    x - ((x * (DecayDen - DecayNum) + DecayDen \div 2) \div DecayDen)

\* train, lines 202-203: epsilon after the decay step
Decayed(eps) == IF eps > epsilon_min THEN TimesDecay(eps) ELSE eps

\* random.random(): the draws of the model, in [0, 1)
RandomDraws == {0, EpsOne - 1}

(***************************************************************************)
(* game.py: Game.  A game is the record of the fields the trainer reads    *)
(* and writes: snake.body (head first), snake.direction,                   *)
(* snake.growth_pending, fruit.position, score, game_over.                 *)
(***************************************************************************)
\* No Game object yet
NoGame ==
    [body |-> <<>>, direction |-> "RIGHT", growth_pending |-> FALSE,
     fruit |-> <<0, 0>>, score |-> 0, game_over |-> FALSE]

\* Game.__init__: the snake at spawn_pos heading right, the goal at the
\* cell f that Fruit.respawn drew
NewGameObject(f) ==
    [body |-> <<spawn_pos>>, direction |-> "RIGHT", growth_pending |-> FALSE,
     fruit |-> f, score |-> 0, game_over |-> FALSE]

\* Game.update, line 130: the body after snake.move()
Moved(g) == MoveBody(g.body, g.direction, g.growth_pending)

\* Game.update, line 138: this tick consumes the goal
Eats(g) ==
    /\ ~g.game_over
    /\ ~CheckCollision(Moved(g))
    /\ Moved(g)[1] = g.fruit

\* Game.update, lines 145-146: the re-sampling loop never ends
RespawnHangs(g) == Eats(g) /\ FreeFruitCells(Moved(g)) = {}

\* Game.update; f is the cell on which the goal's re-sampling stops
Update(g, f) ==
    IF g.game_over THEN g
    ELSE IF CheckCollision(Moved(g))
         THEN [g EXCEPT !.body = Moved(g), !.growth_pending = FALSE,
                        !.game_over = TRUE]
    ELSE IF Moved(g)[1] = g.fruit
         THEN [g EXCEPT !.body = Moved(g), !.growth_pending = TRUE,
                        !.score = g.score + FruitPoints, !.fruit = f]
    ELSE [g EXCEPT !.body = Moved(g), !.growth_pending = FALSE]

(***************************************************************************)
(* The state of a training run.                                            *)
(***************************************************************************)
VARIABLES
    pc,                  \* where train() is
    num_games,           \* train's parameter
    game_num,            \* the for loop's index
    epsilon,             \* SnakeAI.epsilon
    q_table,             \* SnakeAI.q_table: encoded state -> 3 action-values
    reported,            \* what log_game_result was called with
    game,                \* the Game of the episode
    steps_without_fruit, \* train's locals
    moves_made,
    old_state,
    old_score,
    action,
    new_state,
    reward,
    explored,            \* get_action took the random branch
    ticks,               \* calls of game.update() in the run so far
    running,             \* play's locals
    play_moves,          \*   (moves_made of play)
    state,
    play_log,            \* what log_play_game was called with
    plot,                \* how plot_training_progress went
    warned,              \* the logger was given a warning
    pickled,             \* snake_ai.pkl
    display,             \* pygame's display
    ended_by             \* what main's try statement ended with

vars == <<pc, num_games, game_num, epsilon, q_table, reported, game,
          steps_without_fruit, moves_made, old_state, old_score, action,
          new_state, reward, explored, ticks, running, play_moves, state,
          play_log, plot, warned, pickled, display, ended_by>>

\* What the end of train writes
finish_vars == <<plot, warned, pickled>>

play_locals == <<running, play_moves, state, play_log>>

locals == <<steps_without_fruit, moves_made, old_state, old_score, action,
            new_state, reward, explored>>

\* Before main has run anything: no plot, no warning, no pickle file, no
\* display
InitMain ==
    /\ plot = "none"
    /\ warned = FALSE
    /\ pickled = [written |-> FALSE, table |-> <<>>]
    /\ display = "none"
    /\ ended_by = "none"

\* SnakeAI.__init__ and the entry of train(n)
InitWith(n) ==
    /\ pc = "episode"
    /\ num_games = n
    /\ game_num = 0
    /\ epsilon = epsilon_start
    /\ q_table = <<>>
    /\ reported = <<>>
    /\ game = NoGame
    /\ steps_without_fruit = 0
    /\ moves_made = 0
    /\ old_state = <<>>
    /\ old_score = 0
    /\ action = 0
    /\ new_state = <<>>
    /\ reward = 0
    /\ explored = FALSE
    /\ ticks = 0
    /\ running = FALSE
    /\ play_moves = 0
    /\ state = <<>>
    /\ play_log = <<>>
    /\ InitMain

Init == InitWith(NumGames)

\* LoopCondition of a loop that does not test game_over
LoopCondition_Always(g) == TRUE

\* train, line 158: the while condition
LoopCondition(g) == ~g.game_over

\* train, lines 153-156: a new Game, whose goal is at a cell of Fs
NewGame(Fs) ==
    /\ pc = "episode"
    /\ \E f \in Fs : game' = NewGameObject(f)
    /\ steps_without_fruit' = 0
    /\ moves_made' = 0
    /\ pc' = IF LoopCondition(game') THEN "loop" ELSE "log"
    /\ display' = "open"
    /\ UNCHANGED <<num_games, game_num, epsilon, q_table, reported, old_state,
                   old_score, action, new_state, reward, explored, ticks,
                   play_locals, finish_vars, ended_by>>

\* get_action, line 113
Explores(rnd, eps) == rnd < eps

\* StallExceeded that is never true
StallExceeded_Never(n) == FALSE

\* StallExceeded with >= for >
StallExceeded_AtLimit(n) == n >= StallLimit

\* train, line 182: the stagnation counter n ends the episode
StallExceeded(n) == n > StallLimit

\* train, lines 174-184: the reward of a tick from score s0 to game g1, and
\* the stagnation counter after it
RewardOf(s0, g1, steps) ==
    IF g1.game_over THEN RewardCollision
    ELSE IF g1.score > s0 THEN RewardFruit
    ELSE IF StallExceeded(steps + 1) THEN RewardCollision
    ELSE 0

\* StepsAfter without the increment on a tick that neither scores nor
\* collides
StepsAfter_Frozen(s0, g1, steps) ==
    IF g1.score > s0 THEN 0 ELSE steps

\* StepsAfter without the reset on a score increase
StepsAfter_NoReset(s0, g1, steps) ==
    IF g1.game_over THEN steps ELSE steps + 1

StepsAfter(s0, g1, steps) ==
    IF g1.game_over THEN steps
    ELSE IF g1.score > s0 THEN 0
    ELSE steps + 1

\* train, lines 182-183: the tick ends the episode by force
Forced(s0, g1, steps) ==
    ~g1.game_over /\ ~(g1.score > s0) /\ StallExceeded(steps + 1)

\* WithKeys without the inserts
WithKeys_NoInsert(t, s0, s1) == t

\* train, lines 187-190: both states are keys before the table is read
WithKeys(t, s0, s1) == EnsureKey(EnsureKey(t, s0), s1)

\* Learn writing the new value to the three actions of s0
Learn_AllActions(t, s0, a, r, s1) ==
    LET old_q == t[s0][a + 1]
        next_max == MaxOf(t[s1])
        new_q == NewQ(old_q, r, next_max)
    IN  [t EXCEPT ![s0] = <<new_q, new_q, new_q>>]

\* train, lines 193-196: the table after the update of (s0, a)
Learn(t, s0, a, r, s1) ==
    LET old_q == t[s0][a + 1]
        next_max == MaxOf(t[s1])
    IN  [t EXCEPT ![s0][a + 1] = NewQ(old_q, r, next_max)]

\* get_action, lines 116-117: the table after the greedy branch
Greedy(t, s) == EnsureKey(t, s)

\* train, line 119 raises KeyError: state is not a key
TickKeyErrorInGetAction(s0) ==
    /\ pc' = "KeyError"
    /\ old_state' = s0
    /\ old_score' = game.score
    /\ UNCHANGED <<q_table, game, steps_without_fruit, moves_made, action,
                   new_state, reward, explored, ticks>>

\* Game.update never returns from the goal's re-sampling loop
TickHangs(s0, expl, t1, a, g1) ==
    /\ pc' = "respawn_loop"
    /\ game' = g1
    /\ q_table' = t1
    /\ old_state' = s0
    /\ old_score' = game.score
    /\ action' = a
    /\ explored' = expl
    /\ ticks' = ticks + 1
    /\ UNCHANGED <<steps_without_fruit, moves_made, new_state, reward>>

\* train, lines 186-196: the update of the table, t2 being the table after
\* lines 187-190, and the while condition
TickLearn(s0, a, r, s1, t2) ==
    IF s0 \in DOMAIN t2 /\ s1 \in DOMAIN t2
    THEN /\ q_table' = Learn(t2, s0, a, r, s1)
         /\ pc' = IF LoopCondition(game') THEN "loop" ELSE "log"
    ELSE \* line 193 or 194 raises KeyError
         /\ q_table' = t2
         /\ pc' = "KeyError"

\* train, lines 169-196: after game.update() has returned game g1
TickAfterUpdate(s0, expl, t1, a, g1, s1, r) ==
    /\ old_state' = s0
    /\ old_score' = game.score
    /\ action' = a
    /\ explored' = expl
    /\ ticks' = ticks + 1
    /\ moves_made' = moves_made + 1
    /\ new_state' = s1
    /\ reward' = r
    /\ steps_without_fruit' = StepsAfter(game.score, g1, steps_without_fruit)
    /\ game' = IF Forced(game.score, g1, steps_without_fruit)
               THEN [g1 EXCEPT !.game_over = TRUE]
               ELSE g1
    /\ TickLearn(s0, a, r, s1, WithKeys(t1, s0, s1))

\* train, lines 165-166: apply_action and game.update() on game g0, whose
\* heading is already the new one.  Fs: the cells Fruit.respawn may draw.
TickUpdate(s0, expl, t1, a, g0, Fs) ==
    IF RespawnHangs(g0)
    THEN \E f \in Fs : TickHangs(s0, expl, t1, a, Update(g0, f))
    ELSE \E f \in (IF Eats(g0) THEN Fs \cap FreeFruitCells(Moved(g0))
                               ELSE {g0.fruit}) :
         \E g1 \in {Update(g0, f)} :
            TickAfterUpdate(s0, expl, t1, a, g1,
                            GetState(g1.body, g1.direction, g1.fruit),
                            RewardOf(game.score, g1, steps_without_fruit))

\* train, line 164: get_action on table t1, the table after lines 116-117.
\* Ks: the actions random.randint(0, 2) may draw.
TickAct(s0, expl, t1, Ks, Fs) ==
    IF ~expl /\ s0 \notin DOMAIN t1
    THEN TickKeyErrorInGetAction(s0)
    ELSE \E a \in (IF expl THEN Ks ELSE {ArgMax(t1[s0])}) :
            TickUpdate(s0, expl, t1, a,
                       [game EXCEPT !.direction = ApplyAction(game.direction, a)],
                       Fs)

\* TickFrame with a decay of epsilon at every tick
TickFrame_Decays ==
    /\ epsilon' = Decayed(epsilon)
    /\ UNCHANGED <<num_games, game_num, reported, play_locals, finish_vars,
                   display, ended_by>>

\* train, lines 159-196 write neither epsilon nor the report
TickFrame ==
    UNCHANGED <<num_games, game_num, epsilon, reported, play_locals,
                finish_vars, display, ended_by>>

\* One iteration of train's while loop (lines 159-196), its random inputs
\* drawn from: Rs for random.random(), Ks for random.randint(0, 2), Fs for
\* the cell on which the re-sampling of a consumed goal stops.
TrainTick(Rs, Ks, Fs) ==
    /\ pc = "loop"
    /\ \E expl \in {Explores(rnd, epsilon) : rnd \in Rs} :
       \E s0 \in {GetState(game.body, game.direction, game.fruit)} :
          TickAct(s0, expl,
                  IF expl THEN q_table ELSE Greedy(q_table, s0),
                  Ks, Fs)
    /\ TickFrame

\* train, line 199: the episode's report to the logger
LogGameResult ==
    /\ pc = "log"
    /\ reported' = Append(reported,
                          [game_number |-> game_num + 1,
                           score |-> game.score,
                           q_table_size |-> Cardinality(DOMAIN q_table),
                           epsilon |-> epsilon])
    /\ pc' = "decay"
    /\ UNCHANGED <<num_games, game_num, epsilon, q_table, game, locals, ticks,
                   play_locals, finish_vars, display, ended_by>>

\* train, lines 201-203, and the for loop's next index
DecayEpsilon ==
    /\ pc = "decay"
    /\ epsilon' = Decayed(epsilon)
    /\ game_num' = game_num + 1
    /\ pc' = IF game_num + 1 < num_games THEN "episode" ELSE "end"
    /\ UNCHANGED <<num_games, q_table, reported, game, locals, ticks,
                   play_locals, finish_vars, display, ended_by>>

\* What plot_training_progress can meet: the plot is saved, matplotlib is
\* not installed, or a call of it fails
PlotOutcomes == {"saved", "ImportError", "Exception"}

\* PlotProgress catching ImportError alone
PlotProgress_ImportErrorOnly(p) ==
    [warned |-> p = "ImportError", raised |-> p = "Exception"]

\* snake_logger.py, plot_training_progress: its whole body is a try
\* statement whose handlers, for ImportError and for Exception, log a
\* warning; p is what the body met
PlotProgress(p) == [warned |-> p # "saved", raised |-> FALSE]

\* What the writing of snake_ai.pkl can meet: the file is written, or
\* open() fails
DumpOutcomes == {"written", "OSError"}

\* train, lines 205-211: the end of training: log_training_end,
\* plot_training_progress, which meets an outcome of Ps, and pickle.dump
\* into snake_ai.pkl, which meets an outcome of Ws
FinishTraining(Ps, Ws) ==
    /\ pc = "end"
    /\ \E p \in Ps : \E w \in Ws :
          /\ plot' = p
          /\ warned' = PlotProgress(p).warned
          /\ IF PlotProgress(p).raised
             THEN /\ pc' = "Exception"
                  /\ UNCHANGED pickled
             ELSE IF w = "written"
             THEN /\ pc' = "trained"
                  /\ pickled' = [written |-> TRUE, table |-> q_table]
             ELSE /\ pc' = "OSError"
                  /\ UNCHANGED pickled
    /\ UNCHANGED <<num_games, game_num, epsilon, q_table, reported, game,
                   locals, ticks, play_locals, display, ended_by>>

(***************************************************************************)
(* play(): one visible episode driven by get_action, without learning.     *)
(***************************************************************************)
\* play, line 222: the while condition
PlayCondition(g, run) == ~g.game_over /\ run

\* play, lines 215-220: the Game of the demonstration, its goal at a cell
\* of Fs
StartPlay(Fs) ==
    /\ pc = "trained"
    /\ \E f \in Fs : game' = NewGameObject(f)
    /\ running' = TRUE
    /\ play_moves' = 0
    /\ pc' = IF PlayCondition(game', running') THEN "play_loop" ELSE "play_end"
    /\ display' = "open"
    /\ UNCHANGED <<num_games, game_num, epsilon, q_table, reported, locals,
                   ticks, state, play_log, finish_vars, ended_by>>

\* play, lines 224-236: a QUIT or ESC event ends the loop
PlayQuit ==
    /\ running' = FALSE
    /\ pc' = "play_end"
    /\ UNCHANGED <<q_table, game, action, explored, ticks, play_moves, state>>

\* play, lines 241-244: game.update() on game g0, whose heading is already the
\* new one, and the rest of the iteration
PlayUpdate(s0, expl, t1, a, g0, Fs) ==
    /\ state' = s0
    /\ action' = a
    /\ explored' = expl
    /\ q_table' = t1
    /\ ticks' = ticks + 1
    /\ UNCHANGED running
    /\ IF RespawnHangs(g0)
       THEN /\ \E f \in Fs : game' = Update(g0, f)
            /\ pc' = "respawn_loop"
            /\ UNCHANGED play_moves
       ELSE /\ \E f \in (IF Eats(g0) THEN Fs \cap FreeFruitCells(Moved(g0))
                                     ELSE {g0.fruit}) :
                  game' = Update(g0, f)
            /\ play_moves' = play_moves + 1
            /\ pc' = IF PlayCondition(game', running)
                     THEN "play_loop" ELSE "play_end"

\* play, lines 238-240: get_state, get_action on table t1 (the table after
\* lines 116-117) and apply_action
PlayAct(s0, expl, t1, Ks, Fs) ==
    IF ~expl /\ s0 \notin DOMAIN t1
    THEN \* line 119 raises KeyError
         /\ pc' = "KeyError"
         /\ state' = s0
         /\ UNCHANGED <<q_table, game, action, explored, ticks, running,
                        play_moves>>
    ELSE \E a \in (IF expl THEN Ks ELSE {ArgMax(t1[s0])}) :
            PlayUpdate(s0, expl, t1, a,
                       [game EXCEPT !.direction = ApplyAction(game.direction, a)],
                       Fs)

\* PlayFrame with a decay of epsilon at every tick
PlayFrame_Decays ==
    /\ epsilon' = Decayed(epsilon)
    /\ UNCHANGED <<num_games, game_num, reported, steps_without_fruit,
                   moves_made, old_state, old_score, new_state, reward,
                   play_log, finish_vars, display, ended_by>>

\* play, lines 222-244 write neither epsilon nor train's locals
PlayFrame ==
    UNCHANGED <<num_games, game_num, epsilon, reported, steps_without_fruit,
                moves_made, old_state, old_score, new_state, reward,
                play_log, finish_vars, display, ended_by>>

\* One iteration of play's while loop (lines 222-244).  Qs: whether the
\* events of pygame.event.get() hold a QUIT or an ESC key; Rs, Ks, Fs as in
\* TrainTick.
PlayTick(Qs, Rs, Ks, Fs) ==
    /\ pc = "play_loop"
    /\ \E quit \in Qs :
          IF quit
          THEN PlayQuit
          ELSE \E expl \in {Explores(rnd, epsilon) : rnd \in Rs} :
               \E s0 \in {GetState(game.body, game.direction, game.fruit)} :
                  PlayAct(s0, expl,
                          IF expl THEN q_table ELSE Greedy(q_table, s0),
                          Ks, Fs)
    /\ PlayFrame

\* EndPlay logging the play result whenever the game is over or a quit was
\* read
EndPlay_LogsAfterQuit ==
    /\ pc = "play_end"
    /\ play_log' = IF game.game_over \/ ~running
                   THEN Append(play_log, <<game.score, play_moves>>)
                   ELSE play_log
    /\ pc' = "played"
    /\ display' = "released"
    /\ UNCHANGED <<num_games, game_num, epsilon, q_table, reported, game,
                   locals, ticks, running, play_moves, state, finish_vars,
                   ended_by>>

\* play, lines 246-256: the play result is logged when the game is over and
\* no quit was read; pygame.quit()
EndPlay ==
    /\ pc = "play_end"
    /\ play_log' = IF game.game_over /\ running
                   THEN Append(play_log, <<game.score, play_moves>>)
                   ELSE play_log
    /\ pc' = "played"
    /\ display' = "released"
    /\ UNCHANGED <<num_games, game_num, epsilon, q_table, reported, game,
                   locals, ticks, running, play_moves, state, finish_vars,
                   ended_by>>

(***************************************************************************)
(* main(): train, then play, in a try statement with a handler for         *)
(* KeyboardInterrupt and a finally clause.                                 *)
(***************************************************************************)
\* Where train() and play() can be when an exception arrives from outside
Running ==
    {"episode", "loop", "log", "decay", "end", "trained", "play_loop",
     "play_end", "respawn_loop"}

\* The user's Ctrl-C: KeyboardInterrupt is raised inside train() or play()
Interrupt ==
    /\ pc \in Running
    /\ pc' = "KeyboardInterrupt"
    /\ UNCHANGED <<num_games, game_num, epsilon, q_table, reported, game,
                   locals, ticks, play_locals, finish_vars, display, ended_by>>

\* The ways the body of main's try statement ends: play() has returned, or
\* an exception has left train() or play()
TryEnds == {"played", "KeyboardInterrupt", "KeyError", "Exception", "OSError"}

\* MainFinally whose clause runs after a normal end only
MainFinally_NormalOnly ==
    /\ pc \in TryEnds
    /\ ended_by' = pc
    /\ display' = IF pc = "played" THEN "released" ELSE display
    /\ pc' = IF pc \in {"played", "KeyboardInterrupt"} THEN "exit"
             ELSE "traceback"
    /\ UNCHANGED <<num_games, game_num, epsilon, q_table, reported, game,
                   locals, ticks, play_locals, finish_vars>>

\* main, lines 269-272: the handler of KeyboardInterrupt prints a message;
\* the finally clause calls pygame.quit() whatever ended the try; another
\* exception goes on to the interpreter's traceback
MainFinally ==
    /\ pc \in TryEnds
    /\ ended_by' = pc
    /\ display' = "released"
    /\ pc' = IF pc \in {"played", "KeyboardInterrupt"} THEN "exit"
             ELSE "traceback"
    /\ UNCHANGED <<num_games, game_num, epsilon, q_table, reported, game,
                   locals, ticks, play_locals, finish_vars>>

Next ==
    \/ NewGame(FruitCells)
    \/ /\ ticks < MaxTicks
       /\ TrainTick(RandomDraws, Actions, FruitCells)
    \/ LogGameResult
    \/ DecayEpsilon
    \/ FinishTraining(PlotOutcomes, {"written"})
    \/ StartPlay(FruitCells)
    \/ /\ play_moves < MaxPlayTicks
       /\ PlayTick(BOOLEAN, RandomDraws, Actions, FruitCells)
    \/ EndPlay
    \/ MainFinally

\* The runs of main() without a Ctrl-C, snake_ai.pkl being writable
Spec == Init /\ [][Next]_vars

(***************************************************************************)
(* SpecMain: the runs of main() in which the user may press Ctrl-C at any  *)
(* point of train() and play() and the writing of snake_ai.pkl may fail,   *)
(* every draw of randint being 0 (straight on) and every goal being drawn  *)
(* in the top row of the goal's cells.                                     *)
(***************************************************************************)
NextMain ==
    \/ NewGame(StallFruitCells)
    \/ /\ ticks < MaxTicks
       /\ TrainTick(RandomDraws, {0}, StallFruitCells)
    \/ LogGameResult
    \/ DecayEpsilon
    \/ FinishTraining(PlotOutcomes, DumpOutcomes)
    \/ StartPlay(StallFruitCells)
    \/ /\ play_moves < MaxPlayTicks
       /\ PlayTick(BOOLEAN, RandomDraws, {0}, StallFruitCells)
    \/ EndPlay
    \/ Interrupt
    \/ MainFinally

SpecMain == Init /\ [][NextMain]_vars

(***************************************************************************)
(* SpecStall: the runs of train(1) in which every draw of randint is 2     *)
(* (turn right) and every goal is drawn in the top row of the goal's       *)
(* cells: the snake circles through four cells below that row, never       *)
(* scores and never collides.                                              *)
(***************************************************************************)
InitStall == InitWith(1)

NextStall ==
    \/ NewGame(StallFruitCells)
    \/ TrainTick(RandomDraws, {2}, StallFruitCells)
    \/ LogGameResult
    \/ DecayEpsilon
    \/ FinishTraining(PlotOutcomes, {"written"})

SpecStall == InitStall /\ [][NextStall]_vars

(***************************************************************************)
(* SpecStag: the runs of train(1) in which the first StallLimit draws of   *)
(* randint are 2 (the snake circles as in SpecStall) and the later ones    *)
(* are free, every goal being drawn in the top row of the goal's cells:    *)
(* with the stagnation counter at StallLimit the snake can stall once      *)
(* more, consume the goal above the spawn cell, or go on to a wall.  The   *)
(* runs are followed for MaxTicks ticks after the first StallLimit.        *)
(***************************************************************************)
InitStag == InitWith(1)

NextStag ==
    \/ NewGame(StallFruitCells)
    \/ /\ moves_made < StallLimit + MaxTicks
       /\ TrainTick(RandomDraws,
                    IF moves_made < StallLimit THEN {2} ELSE Actions,
                    StallFruitCells)
    \/ LogGameResult
    \/ DecayEpsilon
    \/ FinishTraining(PlotOutcomes, {"written"})

SpecStag == InitStag /\ [][NextStag]_vars

(***************************************************************************)
(* SpecLive: the complete runs of train(2), no tick being left             *)
(* out, in which the interpreter keeps taking the next step of train       *)
(* (weak fairness of the step at each position of train).  The draws are   *)
(* restricted to keep the runs few: in the first                           *)
(* episode the draws of randint are free for FreeTicks ticks and again     *)
(* once StallLimit ticks are made, 2 (turn right) in between, and 0        *)
(* (straight on) once the snake has scored; in the later episodes every    *)
(* tick explores and goes straight on.  The goals of the first episode     *)
(* are drawn freely, the later ones in the top row of the goal's cells.    *)
(***************************************************************************)
\* Where random.random() may fall
LiveDraws == IF game_num = 0 THEN RandomDraws ELSE {0}

\* Where random.randint(0, 2) may fall
LiveActions ==
    IF game_num > 0 \/ game.score > 0 THEN {0}
    ELSE IF moves_made < FreeTicks \/ moves_made >= StallLimit THEN Actions
    ELSE {2}

\* Where the goal may be drawn
LiveFruits == IF game_num = 0 THEN FruitCells ELSE StallFruitCells

InitLive == InitWith(2)

NextLive ==
    \/ NewGame(LiveFruits)
    \/ TrainTick(LiveDraws, LiveActions, LiveFruits)
    \/ LogGameResult
    \/ DecayEpsilon
    \/ FinishTraining(PlotOutcomes, {"written"})

\* train, line 158: an iteration of the while loop.  Within NextLive the
\* steps with pc = "loop" that count a tick are the steps of TrainTick,
\* which is enabled in every reachable state with pc = "loop".
Iteration == pc = "loop" /\ ticks' = ticks + 1

\* train is one thread that never waits: at each of its positions the
\* step of that position is eventually taken
LiveFairness ==
    /\ WF_vars(NewGame(LiveFruits))
    /\ WF_ticks(Iteration)
    /\ WF_vars(LogGameResult)
    /\ WF_vars(DecayEpsilon)
    /\ WF_vars(FinishTraining(PlotOutcomes, {"written"}))

SpecLive == InitLive /\ [][NextLive]_vars /\ LiveFairness

(***************************************************************************)
(* SpecEps: the epsilon schedule of train(EpsGames).  It follows epsilon   *)
(* and the for loop's index alone: an episode's lines 153-199 write        *)
(* neither, and the Game, the table and the report are left as they are.   *)
(***************************************************************************)
\* train, lines 153-199, as far as epsilon and game_num go
SkipEpisode ==
    /\ pc = "episode"
    /\ pc' = "decay"
    /\ UNCHANGED <<num_games, game_num, epsilon, q_table, reported, game,
                   locals, ticks, play_locals, finish_vars, display, ended_by>>

InitEps == InitWith(EpsGames)

NextEps ==
    \/ SkipEpisode
    \/ DecayEpsilon
    \/ FinishTraining(PlotOutcomes, {"written"})

SpecEps == InitEps /\ [][NextEps]_vars

(***************************************************************************)
(* SpecConv: the update of train, lines 193-196, repeated on one entry     *)
(* (old_state, action) with the same reward and the same new_state, a key  *)
(* other than old_state, from a table of these two keys.  The entry's      *)
(* first value, the values of new_state, the reward and the action are     *)
(* drawn from the sets below.                                              *)
(***************************************************************************)
\* Two encodings: the spawn snapshot with the goal above it, and with the
\* goal left of it
ConvOldState ==
    GetState(<<spawn_pos>>, "RIGHT", <<spawn_pos[1], spawn_pos[2] - block_size>>)
ConvNewState ==
    GetState(<<spawn_pos>>, "RIGHT", <<spawn_pos[1] - block_size, spawn_pos[2]>>)

\* First values of the entry: below, at and above the fixed points
ConvStarts == {<<-20, 1>>, <<-1, 2>>, Zero, <<1, 2>>, <<10, 1>>, <<39, 2>>}
\* Values of the three actions of new_state
ConvMaxes == {<<-10, 1>>, Zero, <<10, 1>>}
\* The rewards of train
Rewards == {RewardCollision, 0, RewardFruit}

InitConv ==
    /\ pc = "update"
    /\ num_games = 1
    /\ game_num = 0
    /\ epsilon = epsilon_start
    /\ \E q0 \in ConvStarts : \E m \in ConvMaxes : \E a \in Actions :
          /\ action = a
          /\ q_table = (ConvOldState :> [ZeroTriple EXCEPT ![a + 1] = q0])
                        @@ (ConvNewState :> <<m, m, m>>)
    /\ reward \in Rewards
    /\ old_state = ConvOldState
    /\ new_state = ConvNewState
    /\ reported = <<>>
    /\ game = NoGame
    /\ steps_without_fruit = 0
    /\ moves_made = 0
    /\ old_score = 0
    /\ explored = FALSE
    /\ ticks = 0
    /\ running = FALSE
    /\ play_moves = 0
    /\ state = <<>>
    /\ play_log = <<>>
    /\ InitMain

\* train, lines 193-196, once more on the same transition
RepeatUpdate ==
    /\ pc = "update"
    /\ ticks < ConvSteps
    /\ q_table' = Learn(q_table, old_state, action, reward, new_state)
    /\ ticks' = ticks + 1
    /\ UNCHANGED <<pc, num_games, game_num, epsilon, reported, game,
                   steps_without_fruit, moves_made, old_state, old_score,
                   action, new_state, reward, explored, play_locals,
                   finish_vars, display, ended_by>>

NextConv == RepeatUpdate

SpecConv == InitConv /\ [][NextConv]_vars

(***************************************************************************)
(* The claims.                                                             *)
(***************************************************************************)
Max(a, b) == IF a < b THEN b ELSE a

\* C1: after N completed episodes epsilon is
\* max(epsilon_min, epsilon_start * epsilon_decay^N), and so it is never
\* below epsilon_min.  The closed form is stated by its recurrence: epsilon
\* starts at epsilon_start, and the step that completes an episode takes it
\* from e to max(epsilon_min, e * epsilon_decay).
C1_EpsilonSchedule ==
    /\ [](epsilon >= epsilon_min)
    /\ [](game_num = 0 => epsilon = epsilon_start)
    /\ [][game_num' = game_num + 1 =>
             epsilon' = Max(epsilon_min, TimesDecay(epsilon))]_vars

\* The action-values a tick reads, as they are before the tick: a state that
\* is not a key yet reads as the zero-triple inserted for it.
PreValue(s, a) == IF s \in DOMAIN q_table THEN q_table[s][a + 1] ELSE Zero
PreMax(s) == IF s \in DOMAIN q_table THEN MaxOf(q_table[s]) ELSE Zero

\* A step is a completed iteration of train's while loop
IsTick == moves_made' = moves_made + 1

\* The tick's transition is learned with reward r: the entry of (old_state,
\* action) has moved by 1/20 of (r + 19/20 * max of new_state - old entry)
LearnedWith(r) ==
    /\ old_state' \in DOMAIN q_table'
    /\ RSub(q_table'[old_state'][action' + 1], PreValue(old_state', action')) =
          RMul(<<1, 20>>,
               RSub(RAdd(RInt(r), RMul(<<19, 20>>, PreMax(new_state'))),
                    PreValue(old_state', action')))

\* C2 as claimed: 100 consecutive ticks with no score increase and no
\* collision end the episode: after the 100th the simulation is terminal and
\* the reward is -10.
C2_HundredthTickTerminates ==
    steps_without_fruit = 100 => game.game_over /\ reward = -10

\* C2 amended: it takes 101 such ticks.  A tick that brings the stagnation
\* counter to 100 or less leaves the episode running with reward 0; the tick
\* that brings it to 101 sets the simulation terminal and its transition is
\* learned with reward -10; the counter never passes 101.
C2_StallTerminatesAt101 ==
    /\ [](steps_without_fruit <= 101)
    /\ [][IsTick /\ steps_without_fruit' = steps_without_fruit + 1 =>
             IF steps_without_fruit' <= 100
             THEN ~game'.game_over /\ reward' = 0
             ELSE game'.game_over /\ reward' = -10 /\ LearnedWith(-10)]_vars

\* C2 witness: an episode ended by its 101st stalled tick, without collision
C2_Witness ==
    /\ pc = "log"
    /\ steps_without_fruit = 101
    /\ moves_made = 101
    /\ game.game_over
    /\ ~CheckCollision(game.body)
    /\ reward = -10
    /\ q_table[old_state][action + 1] = <<-1, 2>>

\* C3: the goal is never on a cell of the snake, head included.
C3_GoalNotOnSnake == game.fruit \notin Segments(game.body)

\* C4: every key of the table maps to exactly 3 action-values, and the table
\* is read for a state (argmax in get_action, old_q and next_max in the
\* update) only when the state is a key, also after a random action: no read
\* raises KeyError, the states of a completed tick of train are keys, and
\* so is the state of a completed greedy tick of play.
C4_KeysBeforeReads ==
    /\ pc # "KeyError"
    /\ \A s \in DOMAIN q_table : DOMAIN q_table[s] = 1..3
    /\ (moves_made > 0 /\ pc \in {"loop", "log", "decay"}) =>
          old_state \in DOMAIN q_table /\ new_state \in DOMAIN q_table
    /\ (play_moves > 0 /\ ~explored /\ pc \in {"play_loop", "play_end"}) =>
          state \in DOMAIN q_table

\* C4 witness: a tick whose action was random and whose states were both new
\* to the table has been learned
C4_Witness ==
    /\ pc = "loop"
    /\ explored
    /\ ticks = 1
    /\ old_state # new_state
    /\ DOMAIN q_table = {old_state, new_state}
    /\ q_table[old_state][action + 1] = <<1, 2>>

\* C5: the reward of a tick is -10 if the simulation is terminal after it;
\* otherwise +10 if the score increased, and the stagnation counter is 0;
\* otherwise the counter is one more and the reward is 0, or -10 when the
\* episode is ended by force.  The reward is in {-10, 0, 10} and a tick that
\* collides never has +10.
C5_RewardPolicy ==
    [][IsTick =>
         LET collided == CheckCollision(game'.body)
             scored == game'.score > game.score
         IN  /\ reward' \in {-10, 0, 10}
             /\ collided =>
                   /\ reward' = -10 /\ game'.game_over
                   /\ steps_without_fruit' = steps_without_fruit
             /\ (~collided /\ scored) =>
                   /\ reward' = 10 /\ ~game'.game_over
                   /\ steps_without_fruit' = 0
             /\ (~collided /\ ~scored) =>
                   /\ steps_without_fruit' = steps_without_fruit + 1
                   /\ reward' = IF game'.game_over THEN -10 ELSE 0
             /\ game'.game_over => reward' = -10]_vars

\* C5 witness: a score increase after ticks that had raised the counter
C5_Witness ==
    /\ pc = "loop"
    /\ reward = 10
    /\ game.score = 1
    /\ moves_made = 3
    /\ steps_without_fruit = 0

\* C6: a tick that ends in a collision makes the episode terminal and its
\* transition is learned, once, with reward -10; once the terminal flag is
\* set the episode has no further tick and the table no further update
\* (the next change of the game is the Game of the next episode, or of
\* play).
C6_TerminalTickThenNothing ==
    /\ [][IsTick /\ CheckCollision(game'.body) =>
             /\ game'.game_over /\ reward' = -10 /\ LearnedWith(-10)
             /\ pc' = "log"]_vars
    /\ [][game.game_over =>
             /\ q_table' = q_table /\ ticks' = ticks
             /\ \/ game' = game /\ moves_made' = moves_made
                \/ pc = "episode" /\ ~game'.game_over /\ moves_made' = 0
                \/ pc = "trained" /\ ~game'.game_over /\ play_moves' = 0]_vars

\* C6 witness: the head has left the grid through the left wall
C6_Witness ==
    /\ pc = "log"
    /\ game.game_over
    /\ game.body[1][1] < 0
    /\ reward = -10
    /\ new_state \in DOMAIN q_table

\* C7: the update sets the entry of (old_state, action) to
\* old_q + learning_rate * (reward + discount_factor * max(table[new_state])
\* - old_q), with old_q and the maximum as they are before the write, also
\* when old_state = new_state; from a zero entry and an all-zero new_state
\* the entry becomes learning_rate * reward = reward / 20.
C7_BellmanUpdate ==
    [][IsTick =>
         /\ LearnedWith(reward')
         /\ (PreValue(old_state', action') = Zero /\ PreMax(new_state') = Zero
               /\ (new_state' \in DOMAIN q_table =>
                     q_table[new_state'] = ZeroTriple)) =>
               20 * q_table'[old_state'][action' + 1][1] =
                  reward' * q_table'[old_state'][action' + 1][2]]_vars

\* C7 witness: a goal consumed on a tick whose two states are the same
C7_Witness ==
    /\ pc = "loop"
    /\ old_state = new_state
    /\ reward = 10
    /\ q_table[old_state][action + 1] = <<1, 2>>

\* The cell next to head h in the direction of vector v
CellAt(h, v) == <<h[1] + v[1] * 20, h[2] + v[2] * 20>>
RotateLeft(v) == <<v[2], -v[1]>>
RotateRight(v) == <<-v[2], v[1]>>
InGrid(c) == c[1] >= 0 /\ c[1] < width /\ c[2] >= 0 /\ c[2] < height

\* The danger flags of the game's snapshot are those of the cells straight
\* on, 90 degrees left and 90 degrees right of the heading: a flag is true
\* iff the cell is outside the grid or a body segment other than the head;
\* and these are the cells the snake enters after apply_action 0, 1 and 2.
DangerFlagsExact ==
    LET b == game.body
        v == DirValue(game.direction)
        s == GetState(b, game.direction, game.fruit)
        cands == <<CellAt(b[1], v), CellAt(b[1], RotateLeft(v)),
                   CellAt(b[1], RotateRight(v))>>
        others == {b[i] : i \in 2..Len(b)}
    IN  \A a \in 0..2 :
           /\ s[a + 1] <=> (~InGrid(cands[a + 1]) \/ cands[a + 1] \in others)
           /\ cands[a + 1] =
                 MoveBody(b, ApplyAction(game.direction, a),
                          game.growth_pending)[1]

\* C8 as claimed: for every snapshot the danger flags are exact.
C8_DangerFlagsEverySnapshot == game.body # <<>> => DangerFlagsExact

\* C8 amended: the danger flags are exact for every snapshot whose head is
\* inside the grid.
C8_DangerFlagsHeadInGrid ==
    (game.body # <<>> /\ InGrid(game.body[1])) => DangerFlagsExact

\* C8 witness: a running game in which the cell left of the heading is a
\* body segment, the cell right of it is free and inside the grid
C8_Witness ==
    /\ pc = "loop"
    /\ Len(game.body) >= 4
    /\ InGrid(game.body[1])
    /\ CellAt(game.body[1], RotateLeft(DirValue(game.direction)))
          \in {game.body[i] : i \in 2..Len(game.body)}
    /\ GetState(game.body, game.direction, game.fruit)[2]
    /\ ~GetState(game.body, game.direction, game.fruit)[3]

\* The action-values get_action reads for state s
PreTriple(s) == IF s \in DOMAIN q_table THEN q_table[s] ELSE ZeroTriple

\* C9: when the exploration branch is not taken, get_action returns the
\* index of the maximum of the state's action-values, the lowest one among
\* ties; for a state that is not a key it returns 0 and the state becomes a
\* key.  The state is old_state in train and state in play.
C9_GreedyIsFirstArgmax ==
    [][(ticks' = ticks + 1 /\ ~explored') =>
         LET s == IF pc = "loop" THEN old_state' ELSE state'
             v == PreTriple(s)
         IN  /\ action' \in 0..2
             /\ \A j \in 0..2 : ~RLess(v[action' + 1], v[j + 1])
             /\ \A j \in 0..2 : j < action' => RLess(v[j + 1], v[action' + 1])
             /\ s \notin DOMAIN q_table =>
                   action' = 0 /\ s \in DOMAIN q_table']_vars

\* C9 witness: a greedy choice other than 0
C9_Witness ==
    /\ ~explored
    /\ ticks > 0
    /\ action = 1
    /\ pc = "loop"

\* C10: epsilon is not modified from the start of an episode to its report:
\* only the step after the report changes it, and the report of episode k
\* carries the value the episode's action choices used.
C10_EpsilonFixedInEpisode ==
    [][/\ pc # "decay" => epsilon' = epsilon
       /\ pc = "log" =>
             /\ Len(reported') = Len(reported) + 1
             /\ reported'[Len(reported')].game_number = game_num + 1
             /\ reported'[Len(reported')].epsilon = epsilon
       /\ epsilon' # epsilon =>
             /\ Len(reported) = game_num + 1
             /\ reported[Len(reported)].epsilon = epsilon]_vars

\* C10 witness: the second episode runs with the decayed epsilon, the first
\* was reported with the initial one
C10_Witness ==
    /\ pc = "loop"
    /\ game_num = 1
    /\ moves_made > 0
    /\ epsilon < epsilon_start
    /\ reported[1].epsilon = epsilon_start

\* A step keeps every key of the table with its three action-values
KeysKept ==
    \A s \in DOMAIN q_table : s \in DOMAIN q_table' /\ q_table'[s] = q_table[s]

\* C11: during play() there is no Bellman update and no decay: no step of
\* play changes epsilon, and every state that is a key keeps its three
\* action-values (get_action may add a key, with a zero-triple).
C11_PlayLearnsNothing ==
    [][(pc \in {"trained", "play_loop", "play_end", "played"}) =>
         /\ epsilon' = epsilon
         /\ KeysKept]_vars

\* C11 witness: two ticks of play have run on a trained table, the second
\* greedy on a state that was never learned from
C11_Witness ==
    /\ pc = "play_loop"
    /\ play_moves = 2
    /\ ~explored
    /\ state \in DOMAIN q_table
    /\ q_table[state] = ZeroTriple
    /\ \E s \in DOMAIN q_table : q_table[s] # ZeroTriple
    /\ epsilon < epsilon_start

\* A step keeps every key, and gives no key a zero-triple in place of other
\* values (unless the values are zero by the update of the tick itself)
KeysStay ==
    \A s \in DOMAIN q_table :
       /\ s \in DOMAIN q_table'
       /\ q_table'[s] = ZeroTriple =>
             q_table[s] = ZeroTriple \/ (IsTick /\ s = old_state')

\* C12: the keys of the table only grow: over every step of train and play
\* (get_action calls and updates) a key remains a key and is not replaced
\* by a fresh zero-triple.
C12_KeysOnlyGrow == [][KeysStay]_vars

\* C12 witness: in the second episode the table has four keys or more, one
\* of them with a learned value, and a tick has just added a key
C12_Witness ==
    /\ pc = "loop"
    /\ game_num = 1
    /\ moves_made > 0
    /\ Cardinality(DOMAIN q_table) >= 4
    /\ q_table[new_state] = ZeroTriple
    /\ old_state # new_state
    /\ \E s \in DOMAIN q_table : q_table[s] # ZeroTriple

\* The goal flags (4: right, 5: left, 6: below, 7: above) of encoding s are
\* those of goal f seen from head h
GoalFlagsOf(s, h, f) ==
    /\ s[4] <=> f[1] > h[1]
    /\ s[5] <=> f[1] < h[1]
    /\ s[6] <=> f[2] > h[2]
    /\ s[7] <=> f[2] < h[2]
    /\ ~(s[4] /\ s[5])
    /\ ~(s[6] /\ s[7])

\* The cell one to the right of and one above the grid centre
RightAboveCentre == <<spawn_pos[1] + block_size, spawn_pos[2] - block_size>>

\* C14: in every snapshot the goal flags compare the goal's coordinates
\* with the head's (right: x greater, left: x smaller, below: y greater,
\* above: y smaller), for the snapshot's encoding and for the encoding
\* new_state that a tick of train took of it; and a snake of length 1 at the
\* grid centre heading right, the goal one cell right and one up, is encoded
\* with no danger flag, goal-right, goal-above and heading-right only.
C14_GoalFlags ==
    /\ game.body # <<>> =>
          GoalFlagsOf(GetState(game.body, game.direction, game.fruit),
                      game.body[1], game.fruit)
    /\ (moves_made > 0 /\ pc \in {"loop", "log"}) =>
          GoalFlagsOf(new_state, game.body[1], game.fruit)
    /\ GetState(<<spawn_pos>>, "RIGHT", RightAboveCentre) =
          <<FALSE, FALSE, FALSE, TRUE, FALSE, FALSE, TRUE,
            FALSE, FALSE, FALSE, TRUE>>

\* C14 witness: a snake of length 1 heading right, the goal right of and
\* above the head, no danger flag, as a tick of train has encoded it
C14_Witness ==
    /\ pc = "loop"
    /\ moves_made > 0
    /\ Len(game.body) = 1
    /\ game.fruit[1] > game.body[1][1]
    /\ game.fruit[2] < game.body[1][2]
    /\ new_state = <<FALSE, FALSE, FALSE, TRUE, FALSE, FALSE, TRUE,
                     FALSE, FALSE, FALSE, TRUE>>

\* The number of heading flags (8: up, 9: down, 10: left, 11: right) that
\* are true in encoding s
HeadingFlags(s) == Cardinality({i \in 8..11 : s[i]})

\* C15: every encoded state has exactly one heading flag true: the encoding
\* of every snapshot, terminal ones included, the encodings train and play
\* hold, and every key of the table.
C15_OneHeadingFlag ==
    /\ game.body # <<>> =>
          HeadingFlags(GetState(game.body, game.direction, game.fruit)) = 1
    /\ \A s \in {old_state, new_state, state} : s # <<>> => HeadingFlags(s) = 1
    /\ \A s \in DOMAIN q_table : HeadingFlags(s) = 1

\* C15 witness: a terminal snapshot, the heading turned upward by the last
\* action
C15_Witness ==
    /\ pc = "log"
    /\ game.game_over
    /\ action # 0
    /\ game.direction = "UP"
    /\ new_state[8]
    /\ new_state \in DOMAIN q_table

\* The heading whose vector is v
DirOf(v) == CHOOSE d \in Directions : DirValue(d) = v

\* The heading 90 degrees left and right of d, and opposite to d
LeftOf(d) == DirOf(RotateLeft(DirValue(d)))
RightOf(d) == DirOf(RotateRight(DirValue(d)))
Opposite(d) == DirOf(<<-DirValue(d)[1], -DirValue(d)[2]>>)

\* apply_action on every heading
TurnTable ==
    /\ <<LeftOf("UP"), LeftOf("LEFT"), LeftOf("DOWN"), LeftOf("RIGHT")>> =
          <<"LEFT", "DOWN", "RIGHT", "UP">>
    /\ <<RightOf("UP"), RightOf("RIGHT"), RightOf("DOWN"), RightOf("LEFT")>> =
          <<"RIGHT", "DOWN", "LEFT", "UP">>
    /\ \A d \in Directions :
          /\ ApplyAction(d, 0) = d
          /\ ApplyAction(d, 1) = LeftOf(d)
          /\ ApplyAction(d, 2) = RightOf(d)
          /\ ApplyAction(ApplyAction(d, 1), 2) = d
          /\ \A a \in Actions : ApplyAction(d, a) # Opposite(d)

\* The heading of the game after a tick is the one apply_action gives
TurnTaken ==
    ticks' = ticks + 1 =>
       /\ action' = 0 => game'.direction = game.direction
       /\ action' = 1 => game'.direction = LeftOf(game.direction)
       /\ action' = 2 => game'.direction = RightOf(game.direction)
       /\ game'.direction # Opposite(game.direction)

\* C19: apply_action keeps the heading for action 0, turns it 90 degrees
\* left for action 1 (UP, LEFT, DOWN, RIGHT, UP) and 90 degrees right for
\* action 2 (UP, RIGHT, DOWN, LEFT, UP), for every heading; a left turn
\* then a right turn restores the heading, no action reverses it; and the
\* heading of the game after every tick of train and play is the one so
\* turned.
C19_RelativeTurns == []TurnTable /\ [][TurnTaken]_vars

\* C19 witness: a left turn from RIGHT to UP, then a right turn back
C19_Witness ==
    /\ pc = "loop"
    /\ moves_made = 2
    /\ action = 2
    /\ old_state[8]
    /\ game.direction = "RIGHT"
    /\ game.body[1] = <<spawn_pos[1] + block_size, spawn_pos[2] - block_size>>

\* A tick of train changes the action-value of (old_state, action) alone:
\* every other action-value of the table is as before, a state that was not
\* a key having had none, and the only new keys are old_state and new_state
\* with zeros
OneEntryWritten ==
    IsTick =>
       /\ DOMAIN q_table' = DOMAIN q_table \cup {old_state', new_state'}
       /\ \A s \in DOMAIN q_table' : \A a \in Actions :
             (s # old_state' \/ a # action') =>
                q_table'[s][a + 1] = PreValue(s, a)

\* C20: a training update changes at most one action-value, the entry
\* (old_state, action); the other two values of old_state and the values of
\* every other key are unchanged, and the only other effect is the insertion
\* of zero-triples for old_state and new_state when absent.
C20_UpdateWritesOneEntry == [][OneEntryWritten]_vars

\* C20 witness: an update of one entry, to a value other than zero, in a
\* table of three keys or more with learned values under another key
C20_Witness ==
    /\ pc = "loop"
    /\ moves_made > 0
    /\ q_table[old_state][action + 1] # Zero
    /\ Cardinality(DOMAIN q_table) >= 3
    /\ \E s \in DOMAIN q_table : s # old_state /\ q_table[s] # ZeroTriple

\* The fixed point of the update: reward + discount_factor * next_max
FixedPoint ==
    RAdd(RInt(reward), RMul(discount_factor, MaxOf(q_table[new_state])))

\* p <= q
RLeq(p, q) == RSub(p, q)[1] <= 0
\* |p - q|
RDist(p, q) == IF RLeq(p, q) THEN RSub(q, p) ELSE RSub(p, q)

\* An update moves the entry toward the fixed point and not across it
MovesToward ==
    LET q == q_table[old_state][action + 1]
        q2 == q_table'[old_state][action + 1]
    IN  /\ MaxOf(q_table'[new_state]) = MaxOf(q_table[new_state])
        /\ RLeq(RDist(q2, FixedPoint), RDist(q, FixedPoint))
        /\ RLeq(q, FixedPoint) => RLeq(q, q2) /\ RLeq(q2, FixedPoint)
        /\ RLeq(FixedPoint, q) => RLeq(q2, q) /\ RLeq(FixedPoint, q2)

\* C13: repeated updates of one entry (old_state, action) with a constant
\* reward and a constant maximum of new_state, new_state another key than
\* old_state, move the entry monotonically toward reward + discount_factor *
\* next_max: the distance to it never increases and the entry never crosses
\* it.
C13_MonotoneToFixedPoint == [][ticks' = ticks + 1 => MovesToward]_vars

\* C13 witness: from 0, with reward 10 and next_max 0, two updates have
\* brought the entry to 39/40, below the fixed point 10
C13_Witness ==
    /\ pc = "update"
    /\ ticks = 2
    /\ reward = 10
    /\ MaxOf(q_table[new_state]) = Zero
    /\ q_table[old_state][action + 1] = <<39, 40>>

\* C16: when plot_training_progress finds no matplotlib or a call of it
\* fails, it logs a warning and returns: the end of train() always goes on
\* from the plot to pickle.dump, which writes the table as it is after the
\* last episode; no run is left with a failed plot and no warning or no
\* snake_ai.pkl.
C16_PlotFailureIsWarning ==
    /\ [](plot \in {"ImportError", "Exception"} =>
             warned /\ pickled.written /\ pc # "Exception")
    /\ [][pc = "end" =>
             /\ pc' = "trained"
             /\ pickled' = [written |-> TRUE, table |-> q_table]
             /\ warned' = (plot' # "saved")]_vars

\* C16 witness: training has ended with a failed plot, a warning and the
\* learned table in snake_ai.pkl
C16_Witness ==
    /\ pc = "trained"
    /\ game_num = num_games
    /\ plot = "Exception"
    /\ warned
    /\ pickled.written
    /\ pickled.table = q_table
    /\ \E s \in DOMAIN q_table : q_table[s] # ZeroTriple

\* C17: on every exit of main, after play() has returned, after a
\* KeyboardInterrupt in train() or play(), or after another exception of
\* theirs, pygame.quit() has been executed: the display is released when the
\* program exits or ends in a traceback.
C17_DisplayReleasedOnExit ==
    pc \in {"exit", "traceback"} => display = "released" /\ ended_by \in TryEnds

\* C17 witness: the program has exited after a Ctrl-C in the middle of an
\* episode of training, the display of that episode's Game released
C17_Witness ==
    /\ pc = "exit"
    /\ ended_by = "KeyboardInterrupt"
    /\ game_num < num_games
    /\ moves_made > 0
    /\ ~game.game_over
    /\ ~pickled.written
    /\ display = "released"

\* What a tick of train does to the stagnation counter
CounterStep ==
    IsTick =>
       LET collided == CheckCollision(game'.body)
           scored == game'.score > game.score
           forced == game'.game_over /\ ~collided
       IN  /\ scored => steps_without_fruit' = 0 /\ ~game'.game_over
           /\ steps_without_fruit' = steps_without_fruit + 1
                 <=> (~scored /\ ~collided)
           /\ forced <=> steps_without_fruit' > 100
           /\ forced => reward' = -10 /\ ~scored

\* C18: in training the stagnation counter is 0 when an episode starts and
\* after every score increase; it is at most 100 whenever a tick of a
\* running episode begins; it counts the consecutive ticks without score
\* increase and without collision, and the episode is ended by force
\* (terminal flag, reward -10) on exactly the tick that takes it above 100.
C18_StagnationCounter ==
    /\ [](pc = "loop" => steps_without_fruit <= 100)
    /\ [][pc = "episode" => steps_without_fruit' = 0]_vars
    /\ [][CounterStep]_vars

\* C18 witness: after 100 stalled ticks the 101st consumes the goal: the
\* counter is back at 0 and the episode goes on
C18_Witness ==
    /\ pc = "loop"
    /\ moves_made = 101
    /\ steps_without_fruit = 0
    /\ reward = 10
    /\ game.score = 1
    /\ ~game.game_over

\* Where play() is, from its loop to its return
PlayPcs == {"play_loop", "play_end", "played"}

\* A step of play after which running is false (the step that reads the
\* quit signal, and every later one) chooses no action and applies no tick
NothingAfterQuit ==
    (pc \in PlayPcs /\ ~running') =>
       UNCHANGED <<game, action, explored, state, play_moves, ticks, q_table>>

\* An iteration of play's loop either reads a quit signal, which ends the
\* loop at once, or is a tick; the loop ends only by a quit or with the game
\* over
QuitCheckedFirst ==
    pc = "play_loop" =>
       \/ ~running' /\ pc' = "play_end"
       \/ /\ running' /\ ticks' = ticks + 1
          /\ pc' = "play_end" => game'.game_over

\* The play result is reported by the step that ends play, when the game is
\* over and no quit was read, and by no other step
ReportOnlyTerminal ==
    /\ play_log' # play_log =>
          /\ pc = "play_end" /\ game.game_over /\ running
          /\ play_log' = Append(play_log, <<game.score, play_moves>>)
    /\ (pc = "play_end" /\ game.game_over /\ running) =>
          play_log' # play_log

\* C21: play's loop checks for a quit signal (window close or ESC) at the
\* start of every tick; once one is read no further action is chosen and no
\* further tick is applied; and the play result is reported only when play
\* ended with the game over and not by a quit.
C21_QuitEndsPlay ==
    /\ [][NothingAfterQuit]_vars
    /\ [][QuitCheckedFirst]_vars
    /\ [][ReportOnlyTerminal]_vars
    /\ [](pc = "played" =>
             play_log = IF game.game_over /\ running
                        THEN <<(<<game.score, play_moves>>)>> ELSE <<>>)

\* C21 witness: play was quit after two ticks, the game not over, nothing
\* reported
C21_Witness ==
    /\ pc = "played"
    /\ ~running
    /\ play_moves = 2
    /\ ~game.game_over
    /\ play_log = <<>>

\* The game after apply_action(a) and update(), the goal staying where it
\* is unless consumed (a consumed goal's new cell does not bear on the
\* terminal flag)
AfterAction(g, a) ==
    Update([g EXCEPT !.direction = ApplyAction(g.direction, a)], g.fruit)

\* C23: in every reachable non-terminal snapshot, an action whose danger
\* flag (1: straight, 2: left, 3: right) is false can be applied and the
\* game advanced one tick without update() setting the terminal flag; and
\* no tick of train or play whose action had a false flag ended in a
\* collision.
C23_NoDangerNoCollision ==
    /\ [](game.body # <<>> /\ ~game.game_over =>
             \A a \in Actions :
                ~GetState(game.body, game.direction, game.fruit)[a + 1] =>
                   ~AfterAction(game, a).game_over)
    /\ [][(ticks' = ticks + 1 /\ pc' # "respawn_loop"
           /\ ~GetState(game.body, game.direction, game.fruit)[action' + 1]) =>
             ~CheckCollision(game'.body)]_vars

\* C23 witness: a snake of three segments or more has turned left, where
\* the flag was false, away from the danger straight on, and the game goes on
C23_Witness ==
    /\ pc = "loop"
    /\ moves_made > 0
    /\ Len(game.body) >= 3
    /\ old_state[1]
    /\ ~old_state[2]
    /\ action = 1
    /\ ~game.game_over

\* One tick of an episode, in train or in play: the score, the growth flag
\* and the body after update() against those before it
ScoreAndLengthStep ==
    ticks' = ticks + 1 =>
       LET head == game'.body[1]
           landed == head = game.fruit
       IN  /\ game'.score >= game.score
           /\ game'.score = IF landed THEN game.score + 1 ELSE game.score
           /\ landed => ~game'.game_over
           /\ game'.growth_pending = landed
           /\ game'.body = IF game.growth_pending
                           THEN <<head>> \o game.body
                           ELSE <<head>> \o Front(game.body)

\* Between ticks the game is untouched, or it is a new game of score 0
GameOnlyTicks ==
    ticks' = ticks =>
       \/ game' = game
       \/ /\ game'.score = 0
          /\ game'.body = <<spawn_pos>>
          /\ ~game'.growth_pending

\* C24: in every reachable state of an episode len(body) = 1 + score -
\* (1 if growth is pending else 0); on every tick the score does not
\* decrease and rises by exactly 1 exactly when the head lands on the goal;
\* and the tick after a consumed goal keeps the tail, every other tick
\* drops it.
C24_ScoreAndLength ==
    /\ [](game.body # <<>> =>
             Len(game.body) = 1 + game.score
                                - (IF game.growth_pending THEN 1 ELSE 0))
    /\ [][ScoreAndLengthStep]_vars
    /\ [][GameOnlyTicks]_vars

\* C24 witness: the second goal was consumed a tick ago and the snake has
\* just grown to three segments by keeping its tail
C24_Witness ==
    /\ pc = "loop"
    /\ game.score = 2
    /\ ~game.growth_pending
    /\ Len(game.body) = 3
    /\ old_score = 2
    /\ ~game.game_over

\* The cells of the grid, and their number
GridCells == PyRange(0, width, block_size) \X PyRange(0, height, block_size)
NumCells == Cardinality(GridCells)

\* A snake inside the grid that does not cross itself
SnakeFits(b) ==
    /\ Segments(b) \subseteq GridCells
    /\ Cardinality(Segments(b)) = Len(b)

\* What is left of an episode in game g with the stagnation counter at n:
\* the goals the grid has room for, each worth StallLimit + 1 ticks, and
\* the ticks the counter leaves
Rank(g, n) == (NumCells - g.score) * (StallLimit + 1) + (StallLimit - n)

\* A tick of train after which the loop goes on uses up some of the rank
RankFalls ==
    (pc = "loop" /\ ticks' = ticks + 1) =>
       /\ pc' \in {"loop", "log", "respawn_loop"}
       /\ pc' = "loop" =>
             Rank(game', steps_without_fruit') < Rank(game, steps_without_fruit)
       /\ pc' = "log" => game'.game_over

\* C22: while an episode runs the snake fits the grid, so the rank is not
\* negative, and every tick that does not end the episode lowers it: an
\* episode ends after finitely many ticks, whatever the actions and the
\* goals.  In the runs of train in which the next step is always taken,
\* every episode that starts is reported, and train reaches the end of
\* pickle.dump or stays in a goal's re-sampling for ever.
C22_TrainTerminates ==
    /\ [](pc = "loop" =>
             /\ SnakeFits(game.body)
             /\ game.score <= NumCells
             /\ steps_without_fruit <= StallLimit
             /\ Rank(game, steps_without_fruit) >= 0)
    /\ [][RankFalls]_vars
    /\ \A n \in {0, 1} :
          (pc = "loop" /\ game_num = n) ~>
             (pc \in {"decay", "respawn_loop"} /\ game_num = n
              /\ (pc = "decay" => game.game_over /\ Len(reported) = n + 1))
    /\ <>(pc \in {"trained", "respawn_loop"})
    /\ [](pc = "trained" => Len(reported) = num_games /\ pickled.written)

\* C22 witness: train is done, its first episode having scored after
\* StallLimit ticks without a score and its last having ended at a wall
C22_Witness ==
    /\ pc = "trained"
    /\ Len(reported) = num_games
    /\ pickled.written
    /\ reported[1].score >= 1
    /\ ticks > StallLimit + num_games
    /\ game.game_over
    /\ ~SnakeFits(game.body)

=============================================================================
